---- MODULE Spec2Model ----
(***************************************************************************)
(* A model of cross.py, the orchestrator that builds a GNU cross           *)
(* toolchain: Builder.compile decides which relations to build and drives  *)
(* Builder.build_pkg (configure if needed, then make) through the recipe.  *)
(* Paths, argument lists and printed lines are the strings the code        *)
(* builds; child processes are black boxes that exit with some code.       *)
(***************************************************************************)
EXTENDS Integers, Sequences, FiniteSets, TLC

VARIABLES
    build, host, target,   \* args.build, args.host, args.target (canonical triples)
    dry_run,               \* args.dry_run
    run,                   \* number of the current invocation of the program
    argv,                  \* the --build, --host and --target values as typed ("": not given)
    fetched,               \* main has called fetch() in this invocation
    pc,                    \* "parse", "main" (in main), "start", "run", "done" (compile
                           \* returned), "failed" (an exception left the program)
    error,                 \* the message of that exception
    signals,               \* signals sent to children that were still running, this run
    to_build,              \* compile's local list to_build
    sys,                   \* index into to_build of the relation being processed
    step,                  \* index of the current call in that relation's recipe
    phase,                 \* inside build_pkg: "enter" (before configure) or "make"
    dirs,                  \* directories created by os.makedirs
    makefiles,             \* work directories that hold a Makefile
    logs,                  \* log files: path -> the command whose output the file holds
    stubs,                 \* stub headers: path -> content
    executed,              \* child processes started and stub workarounds done, this run
    printed,               \* lines printed by run_command in dry-run mode, this run
    prev,                  \* what the preceding run left: its lines when it was a complete
                           \* dry run, whether it failed, the Makefiles there were
    derived                \* last result of build_pkg's argument derivation (SpecDerive)

vars == <<build, host, target, dry_run, run, argv, fetched, pc, error, signals,
          to_build, sys, step, phase,
          dirs, makefiles, logs, stubs, executed, printed, prev, derived>>

\* Number of invocations of the program that the model follows.
MaxRuns == 2

\* The triple config.guess reports for the invoking machine (get_build).
BuildTriple == "x86_64-pc-linux-gnu"

\* Triples as config.sub prints them; get_arch knows each architecture.
Triples == {"x86_64-pc-linux-gnu", "aarch64-unknown-linux-gnu", "alpha-unknown-linux-gnu"}

\* class Target
Relations == {"BUILD", "HOST", "TARGET", "CANADIAN"}

Packages == {"binutils", "gcc", "glibc", "linux"}

Stages == {"", "2"}

\* Exit codes of a child process: zero or not.
ExitCodes == {0, 1}

\* signal.SIGINT, and the returncode of a child that died of it.
SIGINT == 2
Killed == 0 - SIGINT

\* Machine specifications a user may type: short forms, and one that config.sub
\* rejects.
RawSpecs == {"x86_64-linux", "aarch64-linux-gnu", "alpha-linux", "bogus"}

\* config.sub: exit code and output (the canonical triple, or a diagnostic).
ConfigSub(raw) ==
    CASE raw \in {"x86_64-linux", "x86_64-pc-linux-gnu"} ->
            [rc |-> 0, out |-> "x86_64-pc-linux-gnu"]
      [] raw \in {"aarch64-linux-gnu", "aarch64-unknown-linux-gnu"} ->
            [rc |-> 0, out |-> "aarch64-unknown-linux-gnu"]
      [] raw \in {"alpha-linux", "alpha-unknown-linux-gnu"} ->
            [rc |-> 0, out |-> "alpha-unknown-linux-gnu"]
      [] OTHER -> [rc |-> 1, out |-> "Invalid configuration " \o raw]

----------------------------------------------------------------------------
\* String helpers: what str.join, str.replace, str.split and os.path.join do.

RECURSIVE Join(_, _)
Join(parts, sep) ==
    IF parts = <<>> THEN ""
    ELSE IF Len(parts) = 1 THEN parts[1]
    ELSE parts[1] \o sep \o Join(Tail(parts), sep)

\* Index of the first occurrence of old in s at or after i, 0 when there is none.
Find(s, old, i) ==
    LET hits == {j \in i .. (Len(s) + 1 - Len(old)) :
                    SubSeq(s, j, j + Len(old) - 1) = old}
    IN  IF hits = {} THEN 0
        ELSE CHOOSE j \in hits : \A k \in hits : j <= k

RECURSIVE StrReplace(_, _, _)
StrReplace(s, old, new) ==
    LET p == Find(s, old, 1)
    IN  IF p = 0 THEN s
        ELSE SubSeq(s, 1, p - 1) \o new
             \o StrReplace(SubSeq(s, p + Len(old), Len(s)), old, new)

PathJoin(a, b) ==
    IF Len(b) > 0 /\ SubSeq(b, 1, 1) = "/" THEN b
    ELSE IF a = "" \/ SubSeq(a, Len(a), Len(a)) = "/" THEN a \o b
    ELSE a \o "/" \o b

----------------------------------------------------------------------------
\* Module-level paths and templates.

DIR == "/cross"
INSTALL_DIR == PathJoin(DIR, "install")
INSTALL_BIN == PathJoin(INSTALL_DIR, "bin")
LOG_DIR == PathJoin(DIR, "logs")
SRC_DIR == PathJoin(DIR, "src")
WORK_DIR == PathJoin(DIR, "work")

\* _PKGS[pkg]['log'].format(stage, verb)
PkgLog(pkg, stage, verb) == pkg \o stage \o "-" \o verb \o ".log"
\* _PKGS[pkg]['src']
PkgSrc(pkg) == PathJoin(SRC_DIR, pkg)
\* A work-directory template without the stage.
PkgWorkNoStage(pkg, stage, name) == PathJoin(WORK_DIR, pkg \o "-" \o name)

\* _PKGS[pkg]['work'].format(stage, name)
PkgWork(pkg, stage, name) == PathJoin(WORK_DIR, pkg \o stage \o "-" \o name)

\* os.environ['PATH'] of the invoking shell.
OS_PATH == "/usr/bin:/bin"

\* args.jobs
jobs == 5

\* The source trees: every package but linux ships a configure script.
HasConfigure(pkg) == pkg # "linux"

\* get_args with host and target in each other's place.
get_args_swapped(b, h, t) == <<"--build=" \o b, "--host=" \o t, "--target=" \o h>>

get_args(b, h, t) == <<"--build=" \o b, "--host=" \o h, "--target=" \o t>>

get_log_path_no_stage(stage, pkg, triple, action) ==
    PathJoin(PathJoin(LOG_DIR, triple), PkgLog(pkg, "", action[1]))

get_log_path(stage, pkg, triple, action) ==
    PathJoin(PathJoin(LOG_DIR, triple), PkgLog(pkg, stage, action[1]))

get_arch(triple) ==
    LET p == Find(triple, "-", 1)
        arch == SubSeq(triple, 1, p - 1)
    IN  CASE arch = "alpha" -> "alpha"
          [] arch = "powerpc" -> "powerpc"
          [] arch = "aarch64" -> "arm64"
          [] arch = "x86_64" -> "x86"
          [] OTHER -> "Unknown arch"

StubsPath(directory) ==
    PathJoin(PathJoin(PathJoin(directory, "include"), "gnu"), "stubs.h")

----------------------------------------------------------------------------
\* Builder.__init__

host_dir == PathJoin(INSTALL_DIR, host)
target_dir == PathJoin(INSTALL_DIR, target)
host_arch == get_arch(host)
target_arch == get_arch(target)
make_cmd == <<"make", "-j" \o ToString(jobs)>>
is_canadian == build # host
is_cross == host # target
common_args == <<"--prefix=" \o INSTALL_DIR>>
gcc_args == common_args \o <<"--enable-languages=all">>
bootstrap_args == common_args \o <<"--disable-shared", "--enable-languages=c,c++">>

\* Builder.format_args: ok is FALSE when CrossException is raised.
Raise(msg) == [ok |-> FALSE, err |-> msg, name |-> "", work_dir |-> "", args |-> <<>>]

format_args(stage, pkg, system, host_only) ==
    LET h == IF ~host_only THEN build
             ELSE IF system = "TARGET" THEN target
             ELSE IF system = "HOST" THEN host
             ELSE ""
    IN  IF host_only /\ system \notin {"TARGET", "HOST"}
        THEN Raise("What are you doing?")
        ELSE CASE system = "HOST" ->
                    [ok |-> TRUE, err |-> "", name |-> host,
                     work_dir |-> PkgWork(pkg, stage, host),
                     args |-> get_args(build, h, host)]
               [] system = "TARGET" ->
                    [ok |-> TRUE, err |-> "", name |-> target,
                     work_dir |-> PkgWork(pkg, stage, target),
                     args |-> get_args(build, h, target)]
               [] system = "CANADIAN" ->
                    [ok |-> TRUE, err |-> "", name |-> Join(<<host, target>>, "_"),
                     work_dir |-> PkgWork(pkg, stage, Join(<<host, target>>, "_")),
                     args |-> get_args(build, host, target)]
               [] OTHER -> Raise("You shouldn't be building anything for build.")

\* build_pkg that never sets host_only.
HostOnlyNever(pkg) == FALSE

\* build_pkg: only glibc is host-only.
HostOnly(pkg) == pkg = "glibc"

\* build_pkg that extends PATH for glibc only.
EnvPathGlibcOnly(pkg, system) ==
    IF pkg = "glibc" THEN OS_PATH \o ":" \o INSTALL_BIN ELSE OS_PATH

\* build_pkg: the PATH handed to the child.
EnvPath(pkg, system) ==
    IF pkg = "glibc" \/ system = "CANADIAN"
    THEN OS_PATH \o ":" \o INSTALL_BIN
    ELSE OS_PATH

----------------------------------------------------------------------------
\* The calls compile makes for one relation, in order.

BuildPkg(pkg, tgt, system, extra, stage) ==
    [op |-> "build_pkg", pkg |-> pkg, target |-> tgt, system |-> system,
     extra_args |-> extra, stage |-> stage, dir |-> ""]

StubsCall(system, directory) ==
    [op |-> "ensure_stubs", pkg |-> "", target |-> <<>>, system |-> system,
     extra_args |-> <<>>, stage |-> "", dir |-> directory]

\* do_canadian that builds but never installs.
do_canadian_no_install ==
    LET canadian_args == <<"--prefix=" \o PathJoin(INSTALL_DIR, host_dir)>>
    IN  << BuildPkg("gcc", <<"all">>, "CANADIAN", canadian_args, "") >>

do_canadian ==
    LET canadian_args == <<"--prefix=" \o PathJoin(INSTALL_DIR, host_dir)>>
    IN  << BuildPkg("gcc", <<"all">>, "CANADIAN", canadian_args, ""),
           BuildPkg("gcc", <<"install">>, "CANADIAN", canadian_args, "") >>

\* The argument O= followed by pwd between backquotes; a TLA+ string cannot hold
\* a backquote, so brackets stand for the two of them.
O_PWD == "O=[pwd]"

do_linux(system, header_prefix) ==
    LET arch == IF system = "HOST" THEN host_arch ELSE target_arch
    IN  BuildPkg("linux",
                 <<"headers_install", "ARCH=" \o arch, "-C", PkgSrc("linux"),
                   O_PWD, "INSTALL_HDR_PATH=" \o header_prefix>>,
                 system, <<>>, "")

do_glibc_headers(system, header_prefix) ==
    BuildPkg("glibc", <<"install-headers">>, system,
             <<"--prefix=" \o header_prefix>>, "")

\* compile's loop body for a relation that is not CANADIAN.
Recipe(system) ==
    LET header_prefix == IF system = "TARGET" THEN target_dir ELSE host_dir
        glibc_args == <<"--prefix=" \o header_prefix>>
    IN  << BuildPkg("binutils", <<"all">>, system, common_args, ""),
           BuildPkg("binutils", <<"install">>, system, common_args, ""),
           BuildPkg("gcc", <<"all-gcc">>, system, bootstrap_args, ""),
           BuildPkg("gcc", <<"install-gcc">>, system, bootstrap_args, ""),
           do_linux(system, header_prefix),
           do_glibc_headers(system, header_prefix),
           StubsCall(system, header_prefix),
           BuildPkg("gcc", <<"all-target-libgcc">>, system, bootstrap_args, ""),
           BuildPkg("gcc", <<"install-target-libgcc">>, system, bootstrap_args, ""),
           BuildPkg("glibc", <<"all">>, system, glibc_args, ""),
           BuildPkg("glibc", <<"install">>, system, glibc_args, ""),
           BuildPkg("gcc", <<"all">>, system, gcc_args, "2"),
           BuildPkg("gcc", <<"install">>, system, gcc_args, "2") >>

\* The loop body with the library headers installed before the kernel headers.
PassCallsHeadersSwapped(system) ==
    IF system = "CANADIAN" THEN do_canadian
    ELSE [i \in 1 .. Len(Recipe(system)) |->
            Recipe(system)[CASE i = 5 -> 6 [] i = 6 -> 5 [] OTHER -> i]]

\* compile: the loop body, which for CANADIAN is do_canadian followed by return.
PassCalls(system) == IF system = "CANADIAN" THEN do_canadian ELSE Recipe(system)

\* ToBuild with the Canadian pair appended before the cross relation.
ToBuildCanadianFirst ==
    (IF is_canadian THEN <<"HOST", "CANADIAN">> ELSE <<>>)
    \o (IF is_cross THEN <<"TARGET">> ELSE <<>>)

\* ToBuild without the is_cross test.
ToBuildNoCrossTest ==
    <<"TARGET">> \o (IF is_canadian THEN <<"HOST", "CANADIAN">> ELSE <<>>)

\* compile: the list to_build.
ToBuild ==
    (IF is_cross THEN <<"TARGET">> ELSE <<>>)
    \o (IF is_canadian THEN <<"HOST", "CANADIAN">> ELSE <<>>)

----------------------------------------------------------------------------
\* The position of compile.

Cur == to_build[sys]
Call == PassCalls(Cur)[step]
Running == pc = "run"

\* Moving to the call after the current one: the next call of the recipe, the
\* next relation of the loop, or the end of compile (always so after do_canadian).
AdvanceOnePass ==
    IF step < Len(PassCalls(Cur))
    THEN pc' = "run" /\ sys' = sys /\ step' = step + 1 /\ phase' = "enter"
    ELSE pc' = "done" /\ sys' = sys /\ step' = step /\ phase' = "enter"

Advance ==
    IF step < Len(PassCalls(Cur))
    THEN pc' = "run" /\ sys' = sys /\ step' = step + 1 /\ phase' = "enter"
    ELSE IF Cur # "CANADIAN" /\ sys < Len(to_build)
    THEN pc' = "run" /\ sys' = sys + 1 /\ step' = 1 /\ phase' = "enter"
    ELSE pc' = "done" /\ sys' = sys /\ step' = step /\ phase' = "enter"

FailContinue == Advance

\* An exception leaves compile where it was raised.
Fail == pc' = "failed" /\ UNCHANGED <<sys, step, phase>>

----------------------------------------------------------------------------
\* Builder.run_command

\* The line printed in dry-run mode.
Line(args, work_dir) ==
    StrReplace(Join(args, " ") \o ", cwd=" \o work_dir, DIR \o "/", "")

\* What is recorded of a child process (or of the stub workaround).
Event(kind, c, args, log_path, work_dir, path, rc) ==
    [kind |-> kind, system |-> c.system, pkg |-> c.pkg, stage |-> c.stage,
     args |-> args, cwd |-> work_dir, log |-> log_path, path |-> path, rc |-> rc]

\* run_command that ignores the child's exit code.
RaisedNever(rc) == FALSE

\* CrossException is raised when the child exits non-zero (never in a dry run).
Raised(rc) == ~dry_run /\ rc # 0

FailureMessageNoDir(args, work_dir) ==
    "Command " \o Join(args, " ") \o " failed."

\* The message of the CrossException run_command raises.
FailureMessage(args, work_dir) ==
    "Command " \o Join(args, " ") \o " failed in " \o work_dir \o "."

run_command_echo(kind, c, args, log_path, work_dir, path, rc) ==
    /\ printed' = Append(printed, Line(args, work_dir))
    /\ IF dry_run
       THEN UNCHANGED <<executed, logs, error, signals>>
       ELSE /\ executed' = Append(executed,
                                  Event(kind, c, args, log_path, work_dir, path, rc))
            /\ logs' = (log_path :> args) @@ logs
            /\ error' = IF rc # 0 THEN FailureMessage(args, work_dir) ELSE error
            /\ UNCHANGED signals

\* kind and c tell which call issued the command; rc is the child's exit code.
\* The child has exited when the finally block runs, so its send_signal reaches
\* no process.
run_command(kind, c, args, log_path, work_dir, path, rc) ==
    IF dry_run
    THEN /\ printed' = Append(printed, Line(args, work_dir))
         /\ UNCHANGED <<executed, logs, error, signals>>
    ELSE /\ executed' = Append(executed,
                               Event(kind, c, args, log_path, work_dir, path, rc))
         /\ logs' = (log_path :> args) @@ logs
         /\ error' = IF Raised(rc) THEN FailureMessage(args, work_dir) ELSE error
         /\ UNCHANGED <<printed, signals>>

ForwardNothing(proc) == signals

\* What the finally block does when KeyboardInterrupt arrives while child number
\* proc is running: returncode is still None, so SIGINT is sent and the child is
\* waited for.
Forward(proc) ==
    Append(signals, [sig |-> "SIGINT", to |-> proc, waited |-> TRUE])

\* run_command when the operator interrupts the program while the child runs:
\* the child is sent SIGINT, dies of it, and KeyboardInterrupt goes on up.
run_command_interrupted(kind, c, args, log_path, work_dir, path) ==
    /\ executed' = Append(executed,
                          Event(kind, c, args, log_path, work_dir, path, Killed))
    /\ logs' = (log_path :> args) @@ logs
    /\ signals' = Forward(Len(executed) + 1)
    /\ error' = "KeyboardInterrupt"
    /\ UNCHANGED printed

----------------------------------------------------------------------------
\* Builder.build_pkg

\* build_pkg that makes the directories in a dry run too.
MakeDirsAlways(triple, work_dir) ==
    dirs \cup {LOG_DIR, PathJoin(LOG_DIR, triple), WORK_DIR, work_dir}

\* The directories build_pkg makes sure exist.
MakeDirs(triple, work_dir) ==
    IF dry_run THEN dirs
    ELSE dirs \cup {LOG_DIR, PathJoin(LOG_DIR, triple), WORK_DIR, work_dir}

\* build_pkg that does not look for the Makefile.
NeedsConfigureAlways(pkg, work_dir) == HasConfigure(pkg)

NeedsConfigure(pkg, work_dir) ==
    work_dir \notin makefiles /\ HasConfigure(pkg)

ConfigureCmd(c, fa) ==
    <<PathJoin(PkgSrc(c.pkg), "configure")>> \o fa.args \o c.extra_args

\* build_pkg up to and including the configure step, when it is needed.
\* A configure that exits zero leaves a Makefile in the work directory.
Configure ==
    /\ Running /\ Call.op = "build_pkg" /\ phase = "enter"
    /\ LET c == Call
           fa == format_args(c.stage, c.pkg, c.system, HostOnly(c.pkg))
       IN  /\ fa.ok
           /\ NeedsConfigure(c.pkg, fa.work_dir)
           /\ dirs' = MakeDirs(fa.name, fa.work_dir)
           /\ \E rc \in ExitCodes :
                /\ run_command("configure", c, ConfigureCmd(c, fa),
                               get_log_path(c.stage, c.pkg, fa.name, <<"config">>),
                               fa.work_dir, EnvPath(c.pkg, c.system), rc)
                /\ makefiles' = IF ~dry_run /\ rc = 0
                                THEN makefiles \cup {fa.work_dir} ELSE makefiles
                /\ IF Raised(rc) THEN Fail
                   ELSE pc' = pc /\ sys' = sys /\ step' = step /\ phase' = "make"
    /\ UNCHANGED <<build, host, target, dry_run, run, argv, fetched, to_build, stubs,
                   prev, derived>>

\* build_pkg when the Makefile is there, or the package has no configure script.
SkipConfigure ==
    /\ Running /\ Call.op = "build_pkg" /\ phase = "enter"
    /\ LET c == Call
           fa == format_args(c.stage, c.pkg, c.system, HostOnly(c.pkg))
       IN  /\ fa.ok
           /\ ~NeedsConfigure(c.pkg, fa.work_dir)
           /\ dirs' = MakeDirs(fa.name, fa.work_dir)
    /\ phase' = "make"
    /\ UNCHANGED <<build, host, target, dry_run, run, argv, fetched, pc, error,
                   signals, to_build, sys, step,
                   makefiles, logs, stubs, executed, printed, prev, derived>>

\* The stub headers after the make of call c has exited with rc: glibc's make
\* install, once the library is built, writes the generated gnu/stubs.h under its
\* prefix (install-headers is the step that leaves it out).
AfterMake(c, rc) ==
    IF ~dry_run /\ rc = 0 /\ c.pkg = "glibc" /\ c.target = <<"install">>
    THEN (StubsPath(IF c.system = "TARGET" THEN target_dir ELSE host_dir)
            :> "generated") @@ stubs
    ELSE stubs

\* build_pkg: the make step.
Make ==
    /\ Running /\ Call.op = "build_pkg" /\ phase = "make"
    /\ LET c == Call
           fa == format_args(c.stage, c.pkg, c.system, HostOnly(c.pkg))
       IN  \E rc \in ExitCodes :
                /\ run_command("make", c, make_cmd \o c.target,
                               get_log_path(c.stage, c.pkg, fa.name, c.target),
                               fa.work_dir, EnvPath(c.pkg, c.system), rc)
                /\ stubs' = AfterMake(c, rc)
                /\ IF Raised(rc) THEN Fail ELSE Advance
    /\ UNCHANGED <<build, host, target, dry_run, run, argv, fetched, to_build, dirs,
                   makefiles, prev, derived>>

\* The operator interrupts a live run while the configure or the make of the
\* current build_pkg call is running.
Interrupt ==
    /\ Running /\ ~dry_run /\ Call.op = "build_pkg"
    /\ LET c == Call
           fa == format_args(c.stage, c.pkg, c.system, HostOnly(c.pkg))
       IN  /\ fa.ok
           /\ IF phase = "enter"
              THEN /\ NeedsConfigure(c.pkg, fa.work_dir)
                   /\ dirs' = MakeDirs(fa.name, fa.work_dir)
                   /\ run_command_interrupted(
                          "configure", c, ConfigureCmd(c, fa),
                          get_log_path(c.stage, c.pkg, fa.name, <<"config">>),
                          fa.work_dir, EnvPath(c.pkg, c.system))
              ELSE /\ dirs' = dirs
                   /\ run_command_interrupted(
                          "make", c, make_cmd \o c.target,
                          get_log_path(c.stage, c.pkg, fa.name, c.target),
                          fa.work_dir, EnvPath(c.pkg, c.system))
    /\ Fail
    /\ UNCHANGED <<build, host, target, dry_run, run, argv, fetched, to_build,
                   makefiles, stubs, prev, derived>>

\* compile: if not self.dry_run: ensure_stubs(header_prefix)
ensure_stubs_truncate(directory) ==
    (StubsPath(directory) :> "") @@ stubs

\* ensure_stubs: the stub headers after the call.
ensure_stubs(directory) ==
    LET stubs_path == StubsPath(directory)
    IN  IF stubs_path \in DOMAIN stubs THEN stubs
        ELSE (stubs_path :> "") @@ stubs

EnsureStubs ==
    /\ Running /\ Call.op = "ensure_stubs"
    /\ LET c == Call
       IN  IF dry_run
           THEN UNCHANGED <<stubs, executed>>
           ELSE /\ stubs' = ensure_stubs(c.dir)
                /\ executed' = Append(executed,
                                      Event("stubs", c, <<>>, "", c.dir, "", 0))
    /\ Advance
    /\ UNCHANGED <<build, host, target, dry_run, run, argv, fetched, error, signals,
                   to_build, dirs, makefiles, logs, printed, prev, derived>>

----------------------------------------------------------------------------
\* Builder.compile and main

\* compile: decide the relations and enter the loop.
Compile ==
    /\ pc = "start"
    /\ to_build' = ToBuild
    /\ IF ToBuild = <<>>
       THEN pc' = "done" /\ sys' = 0 /\ step' = 0
       ELSE pc' = "run" /\ sys' = 1 /\ step' = 1
    /\ phase' = "enter"
    /\ UNCHANGED <<build, host, target, dry_run, run, argv, fetched, error, signals,
                   dirs, makefiles, logs, stubs, executed, printed, prev, derived>>

\* The program is invoked again with the same triples on the files the earlier
\* runs left; the operator chooses --dry-run anew.  The step is main up to the
\* call of compile: fetch() unless it is a dry run, then Builder(args).
Rerun ==
    /\ pc \in {"done", "failed"}
    /\ run < MaxRuns
    /\ run' = run + 1
    /\ dry_run' \in BOOLEAN
    /\ fetched' = ~dry_run'
    /\ pc' = "start" /\ to_build' = <<>> /\ sys' = 0 /\ step' = 0 /\ phase' = "enter"
    /\ executed' = <<>> /\ printed' = <<>> /\ signals' = <<>> /\ error' = ""
    /\ prev' = [valid |-> dry_run /\ pc = "done",
                lines |-> IF dry_run /\ pc = "done" THEN printed ELSE <<>>,
                failed |-> pc = "failed",
                makefiles |-> makefiles]
    /\ UNCHANGED <<build, host, target, argv, dirs, makefiles, logs, stubs, derived>>

NoDerived == [ok |-> FALSE, err |-> "", name |-> "", work_dir |-> "", args |-> <<>>,
              stage |-> "", pkg |-> "", system |-> "", host_only |-> FALSE]

\* A fresh checkout: nothing built, no logs.  build keeps its default, the
\* invoking machine's triple; host and target are any of the triples.
NoPrev == [valid |-> FALSE, lines |-> <<>>, failed |-> FALSE, makefiles |-> {}]

\* The files of a fresh checkout, and nothing started yet.
Fresh ==
    /\ run = 1
    /\ to_build = <<>> /\ sys = 0 /\ step = 0 /\ phase = "enter"
    /\ dirs = {} /\ makefiles = {} /\ logs = <<>> /\ stubs = <<>>
    /\ executed = <<>> /\ printed = <<>> /\ signals = <<>> /\ error = ""
    /\ prev = NoPrev
    /\ derived = NoDerived

Init ==
    /\ build = BuildTriple /\ host \in Triples /\ target \in Triples
    /\ argv = [build |-> "", host |-> host, target |-> target]
    /\ dry_run \in BOOLEAN
    /\ fetched = ~dry_run
    /\ pc = "start"
    /\ Fresh

Next ==
    \/ Compile
    \/ Configure
    \/ SkipConfigure
    \/ Make
    \/ EnsureStubs
    \/ Interrupt
    \/ Rerun

Spec == Init /\ [][Next]_vars

----------------------------------------------------------------------------
\* The argument derivation on its own: build_pkg's call of format_args for any
\* package, relation and stage.

Derive ==
    /\ \E pkg \in Packages, system \in Relations, stage \in Stages :
          derived' = [stage |-> stage, pkg |-> pkg, system |-> system,
                      host_only |-> HostOnly(pkg)]
                     @@ format_args(stage, pkg, system, HostOnly(pkg))
    /\ UNCHANGED <<build, host, target, dry_run, run, argv, fetched, pc, error,
                   signals, to_build, sys, step, phase,
                   dirs, makefiles, logs, stubs, executed, printed, prev>>

NextDerive == Derive

SpecDerive == Init /\ [][NextDerive]_vars

----------------------------------------------------------------------------
\* main from the command line on: one invocation on a fresh checkout.

Options == <<"build", "host", "target">>

RejectedNever(raw) == FALSE

\* Canonicalize.__call__ raises CrossException for this specification.
Rejected(raw) == ConfigSub(raw).rc # 0

\* The options given, in the order in which argparse meets them.
Given == SelectSeq(Options, LAMBDA o : argv[o] # "")

\* The first option given whose value is rejected, "" when there is none.
FirstRejected ==
    LET bad == SelectSeq(Given, LAMBDA o : Rejected(argv[o]))
    IN  IF bad = <<>> THEN "" ELSE bad[1]

\* Canonicalize.__call__ for option o: setattr(namespace, dest, output).
Canonical(o, old) ==
    IF argv[o] # "" THEN ConfigSub(argv[o]).out ELSE old

\* parser.parse_args(): every option given goes through Canonicalize; the first
\* rejected one ends the program with the diagnostic.
ParseArgs ==
    /\ pc = "parse"
    /\ IF FirstRejected # ""
       THEN /\ pc' = "failed"
            /\ error' = ConfigSub(argv[FirstRejected]).out
            /\ UNCHANGED <<build, host, target>>
       ELSE /\ pc' = "main"
            /\ build' = Canonical("build", build)
            /\ host' = Canonical("host", host)
            /\ target' = Canonical("target", target)
            /\ error' = error
    /\ UNCHANGED <<dry_run, run, argv, fetched, signals, to_build, sys, step, phase,
                   dirs, makefiles, logs, stubs, executed, printed, prev, derived>>

\* main after parse_args: fetch() unless it is a dry run, then Builder(args).
Main ==
    /\ pc = "main"
    /\ fetched' = ~dry_run
    /\ pc' = "start"
    /\ UNCHANGED <<build, host, target, dry_run, run, argv, error, signals, to_build,
                   sys, step, phase,
                   dirs, makefiles, logs, stubs, executed, printed, prev, derived>>

\* Every triple starts as the default, the invoking machine's triple.
InitMain ==
    /\ build = BuildTriple /\ host = BuildTriple /\ target = BuildTriple
    /\ argv \in [build : {"", "x86_64-linux", "bogus"},
                 host : RawSpecs \cup {""},
                 target : RawSpecs \cup {""}]
    /\ dry_run \in BOOLEAN
    /\ fetched = FALSE
    /\ pc = "parse"
    /\ Fresh

NextMain ==
    \/ ParseArgs
    \/ Main
    \/ Compile
    \/ Configure
    \/ SkipConfigure
    \/ Make
    \/ EnsureStubs
    \/ Interrupt

SpecMain == InitMain /\ [][NextMain]_vars

----------------------------------------------------------------------------
\* Properties.

Range(f) == {f[i] : i \in DOMAIN f}

IsPrefix(a, b) == Len(a) <= Len(b) /\ SubSeq(b, 1, Len(a)) = a

\* C1: once compile has decided, the relation list is empty when build = host =
\* target, [TARGET] when only host and target differ, [HOST, CANADIAN] when only
\* build and host differ, and [TARGET, HOST, CANADIAN] when both pairs differ.
C1_RelationList ==
    pc # "start" =>
        to_build = CASE build = host /\ host = target -> <<>>
                     [] build = host /\ host # target -> <<"TARGET">>
                     [] build # host /\ host = target -> <<"HOST", "CANADIAN">>
                     [] OTHER -> <<"TARGET", "HOST", "CANADIAN">>

C1_Witness ==
    /\ pc = "done" /\ build # host /\ host # target
    /\ to_build = <<"TARGET", "HOST", "CANADIAN">>

\* C2 as stated: whenever host = target, whatever build is, no relation is built
\* and no package step is executed or printed.
C2_NoStepWhenHostIsTarget ==
    host = target => to_build = <<>> /\ executed = <<>> /\ printed = <<>>

\* C2 amended: when host = target and also build = host, no relation is built and
\* no package step is executed or printed.
C2_NoStepWhenNative ==
    (host = target /\ build = host) =>
        to_build = <<>> /\ executed = <<>> /\ printed = <<>>

C2_Witness == host = target /\ build = host /\ pc = "done" /\ run = MaxRuns

\* What was started for relation R in this run, in order.
PassEvents(R) == SelectSeq(executed, LAMBDA e : e.system = R)

IsStep(e) == e.kind # "configure"
IsConfigure(e) == e.kind = "configure"

\* A make step is named by package, stage and first make verb; the verb follows
\* the two words of make_cmd.
StepName(e) ==
    IF e.kind = "stubs" THEN <<"stubs">> ELSE <<e.pkg, e.stage, e.args[3]>>

StepNames(events) ==
    LET steps == SelectSeq(events, IsStep)
    IN  [i \in 1 .. Len(steps) |-> StepName(steps[i])]

\* The i-th relation of to_build has been gone through to its end.
PassDone(i) == i <= Len(to_build) /\ (sys > i \/ pc = "done")

TripleOf(R) == IF R = "HOST" THEN host ELSE target

FullRecipe ==
    << <<"binutils", "", "all">>, <<"binutils", "", "install">>,
       <<"gcc", "", "all-gcc">>, <<"gcc", "", "install-gcc">>,
       <<"linux", "", "headers_install">>, <<"glibc", "", "install-headers">>,
       <<"stubs">>,
       <<"gcc", "", "all-target-libgcc">>, <<"gcc", "", "install-target-libgcc">>,
       <<"glibc", "", "all">>, <<"glibc", "", "install">>,
       <<"gcc", "2", "all">>, <<"gcc", "2", "install">> >>

\* C3: in a live run, the steps started for a relation HOST or TARGET follow the
\* full recipe in its order (binutils, bootstrap gcc, linux headers, glibc
\* headers, stub workaround, libgcc, glibc, final gcc), a pass gone through to
\* its end has started exactly the thirteen of them, and every configure of the
\* pass carries --target= the relation's triple.
C3_RecipeOrder ==
    ~dry_run =>
        \A i \in 1 .. Len(to_build) :
            to_build[i] # "CANADIAN" =>
                LET ev == PassEvents(to_build[i])
                IN  /\ IsPrefix(StepNames(ev), FullRecipe)
                    /\ PassDone(i) => StepNames(ev) = FullRecipe
                    /\ \A k \in 1 .. Len(ev) :
                          IsConfigure(ev[k]) =>
                              ev[k].args[4] = "--target=" \o TripleOf(to_build[i])

C3_Witness ==
    /\ ~dry_run /\ pc = "done" /\ to_build = <<"TARGET">>
    /\ StepNames(PassEvents("TARGET")) = FullRecipe
    /\ \E k \in 1 .. Len(executed) : IsConfigure(executed[k])

CanadianRecipe == << <<"gcc", "", "all">>, <<"gcc", "", "install">> >>

C5_BaseTriple ==
    (derived.pkg \in Packages \ {"glibc"} /\ derived.system # "BUILD") =>
        /\ derived.ok
        /\ derived.args =
             CASE derived.system = "HOST" ->
                    <<"--build=" \o build, "--host=" \o build, "--target=" \o host>>
               [] derived.system = "TARGET" ->
                    <<"--build=" \o build, "--host=" \o build, "--target=" \o target>>
               [] derived.system = "CANADIAN" ->
                    <<"--build=" \o build, "--host=" \o host, "--target=" \o target>>

C5_Witness ==
    /\ derived.pkg = "gcc" /\ derived.stage = "2" /\ derived.system = "CANADIAN"
    /\ derived.ok
    /\ build # host /\ host # target /\ build # target

\* C6: for glibc, the host-only package, the derived --host is the run's target
\* under TARGET and the run's host under HOST; under CANADIAN or BUILD the
\* derivation raises and gives neither arguments nor a work directory.
C6_HostOnlyTriple ==
    derived.pkg = "glibc" =>
        /\ derived.system = "TARGET" =>
              derived.ok /\ derived.args[2] = "--host=" \o target
        /\ derived.system = "HOST" =>
              derived.ok /\ derived.args[2] = "--host=" \o host
        /\ derived.system \in {"CANADIAN", "BUILD"} =>
              ~derived.ok /\ derived.args = <<>> /\ derived.work_dir = ""

C6_Witness ==
    /\ derived.pkg = "glibc" /\ derived.system = "CANADIAN" /\ ~derived.ok
    /\ build # host /\ host # target

\* C7: a configure or make step that exited non-zero is the last thing the run
\* started and the run has failed: no later step of the relation, no step of a
\* later relation and no second attempt follows it.
C7_FailureStops ==
    \A i \in 1 .. Len(executed) :
        executed[i].rc # 0 => i = Len(executed) /\ pc = "failed"

C7_Witness ==
    /\ pc = "failed" /\ Len(to_build) = 3 /\ sys = 1 /\ step = 4
    /\ Len(executed) > 2
    /\ executed[Len(executed)].rc # 0

\* The log of the configure step of a work directory.
ConfigLog(stage, pkg, name) == get_log_path(stage, pkg, name, <<"config">>)

\* Every configure of work directory w in the new trace was there before.
NoNewConfigure(w) ==
    \A i \in 1 .. Len(executed') :
        (IsConfigure(executed'[i]) /\ executed'[i].cwd = w) =>
            i <= Len(executed) /\ executed[i] = executed'[i]

\* Log file f is the same before and after the step.
SameLog(f) ==
    /\ (f \in DOMAIN logs) = (f \in DOMAIN logs')
    /\ f \in DOMAIN logs => logs'[f] = logs[f]

\* C8: a work directory that holds a Makefile is never configured again, in this
\* run or a later one: every step leaves its Makefile and its configure log as
\* they are and starts no configure in it; a build_pkg call on it goes straight
\* to make, which starts one make and rewrites the log of that make only.
C8_ConfiguredOnce ==
    [][/\ \A pkg \in Packages, system \in Relations \ {"BUILD"}, stage \in Stages :
            LET fa == format_args(stage, pkg, system, HostOnly(pkg))
            IN  (fa.ok /\ fa.work_dir \in makefiles) =>
                    /\ fa.work_dir \in makefiles'
                    /\ NoNewConfigure(fa.work_dir)
                    /\ SameLog(ConfigLog(stage, pkg, fa.name))
       /\ (Running /\ run' = run /\ Call.op = "build_pkg") =>
            LET c == Call
                fa == format_args(c.stage, c.pkg, c.system, HostOnly(c.pkg))
                mlog == get_log_path(c.stage, c.pkg, fa.name, c.target)
            IN  fa.work_dir \in makefiles =>
                    /\ phase = "enter" =>
                          /\ UNCHANGED <<executed, printed, logs, makefiles>>
                          /\ phase' = "make"
                    /\ (phase = "make" /\ ~dry_run) =>
                          /\ Len(executed') = Len(executed) + 1
                          /\ SubSeq(executed', 1, Len(executed)) = executed
                          /\ executed'[Len(executed')].kind = "make"
                          /\ executed'[Len(executed')].cwd = fa.work_dir
                          /\ \A f \in (DOMAIN logs \cup DOMAIN logs') \ {mlog} :
                                SameLog(f)
                          /\ mlog \in DOMAIN logs'
                          /\ makefiles' = makefiles
      ]_vars

\* A later run made (here: make install) in a directory configured by an earlier
\* run, without configuring it.
C8_Witness ==
    /\ ~dry_run /\ run = 2
    /\ \E i \in 1 .. Len(executed) :
          /\ executed[i].kind = "make" /\ executed[i].pkg = "gcc"
          /\ executed[i].stage = "2"
          /\ executed[i].cwd \in makefiles
          /\ ConfigLog("2", "gcc", IF executed[i].system = "HOST" THEN host ELSE target)
                \in DOMAIN logs
          /\ \A j \in 1 .. Len(executed) :
                IsConfigure(executed[j]) => executed[j].cwd # executed[i].cwd

\* C9: in a dry run no step creates a directory, writes a log, creates a stub
\* header or a Makefile, or starts a process, whatever files earlier runs left.
C9_DryRunNoEffects ==
    [][(dry_run /\ run' = run) =>
            UNCHANGED <<dirs, logs, stubs, makefiles, executed>>]_vars

\* A complete dry run on the files a live run left behind.
C9_Witness ==
    /\ dry_run /\ pc = "done" /\ run = 2
    /\ Len(to_build) = 3 /\ Len(printed) > 26
    /\ makefiles # {} /\ dirs # {} /\ executed = <<>>

\* The lines a dry run would print for the processes this live run started.
LiveLines ==
    LET procs == SelectSeq(executed, LAMBDA e : e.kind # "stubs")
    IN  [i \in 1 .. Len(procs) |-> Line(procs[i].args, procs[i].cwd)]

\* C10: a live run in which every step succeeded, started on the files on which
\* the dry run just before it ran, has executed exactly the configure and make
\* steps whose lines that dry run printed, in the same order.
C10_DryRunMatchesLive ==
    (~dry_run /\ pc = "done" /\ prev.valid) => LiveLines = prev.lines

StartsWith(s, prefix) ==
    Len(prefix) <= Len(s) /\ SubSeq(s, 1, Len(prefix)) = prefix

EndsWith(s, suffix) ==
    Len(suffix) <= Len(s) /\ SubSeq(s, Len(s) + 1 - Len(suffix), Len(s)) = suffix

\* The children whose PATH build_pkg extends: glibc's and the CANADIAN ones.
NeedsCrossTools(e) ==
    e.kind # "stubs" /\ (e.pkg = "glibc" \/ e.system = "CANADIAN")

RecipeCalls ==
    {c \in UNION {Range(PassCalls(to_build[i])) : i \in 1 .. Len(to_build)} :
        c.op = "build_pkg"}

WorkDirOf(c) == format_args(c.stage, c.pkg, c.system, HostOnly(c.pkg)).work_dir

\* C12: two calls of the recipe that differ in package, relation or stage have
\* different work directories.  The triples and to_build stay as they are for
\* the whole run, so the calls are compared when compile enters its loop.
C12_WorkDirsDistinct ==
    (Running /\ sys = 1 /\ step = 1 /\ phase = "enter") =>
        \A c, d \in RecipeCalls :
            <<c.pkg, c.system, c.stage>> # <<d.pkg, d.system, d.stage>> =>
                WorkDirOf(c) # WorkDirOf(d)

\* All three relations: eleven combinations, and both gcc stages of HOST were
\* configured by the run before.
C12_Witness ==
    /\ Running /\ sys = 1 /\ step = 1 /\ phase = "enter"
    /\ Len(to_build) = 3 /\ run = 2
    /\ PkgWork("gcc", "", host) \in makefiles
    /\ PkgWork("gcc", "2", host) \in makefiles
    /\ Cardinality({WorkDirOf(c) : c \in RecipeCalls}) = 11

\* C13: when the operator interrupts a live run while a child process is running,
\* that child is sent the interrupt and waited for, it is the last step of the
\* run, and the run has ended with the interrupt.
C13_InterruptForwarded ==
    error = "KeyboardInterrupt" =>
        /\ pc = "failed"
        /\ executed # <<>>
        /\ executed[Len(executed)].rc = Killed
        /\ signals = <<[sig |-> "SIGINT", to |-> Len(executed), waited |-> TRUE]>>
        /\ \A i \in 1 .. Len(executed) - 1 : executed[i].rc = 0

C13_Witness ==
    /\ error = "KeyboardInterrupt"
    /\ Len(executed) > 3
    /\ executed[Len(executed)].kind = "make"
    /\ signals # <<>>

Processes == SelectSeq(executed, LAMBDA e : e.kind # "stubs")

Contains(s, part) == Find(s, part, 1) # 0

\* C14 as stated: in a live run, too, there is one printed command line for each
\* configure and make step executed.
C14_CommandLinePerStep ==
    ~dry_run => Len(printed) = Len(Processes)

\* C14 amended: only a dry run prints command lines; a live run prints none,
\* and a dry run gone through to its end has printed the make command line, with
\* its working directory, of every build_pkg call of its relations.
C14_CommandLinesInDryRunOnly ==
    /\ ~dry_run => printed = <<>>
    /\ (dry_run /\ pc = "done") =>
            \A c \in RecipeCalls :
                Line(make_cmd \o c.target, WorkDirOf(c)) \in Range(printed)

C14_Witness ==
    /\ ~dry_run /\ pc = "done" /\ run = 2
    /\ prev.valid /\ Len(prev.lines) > 20
    /\ Len(Processes) > 10
    /\ printed = <<>>

Last == executed[Len(executed)]

\* A run ended by the failure of a child process.
StepFailed ==
    pc = "failed" /\ error # "KeyboardInterrupt" /\ executed # <<>>

\* C15 as stated: the error raised for a child that exits non-zero names the
\* command, the log file and the working directory.
C15_ErrorNamesLog ==
    StepFailed =>
        /\ Contains(error, Join(Last.args, " "))
        /\ Contains(error, Last.log)
        /\ Contains(error, Last.cwd)

\* C15 amended: the error raised for a child that exits non-zero is "Command
\* <command> failed in <working directory>."; the log path is not in it.
C15_ErrorNamesCommandAndDir ==
    StepFailed =>
        /\ Last.rc # 0
        /\ error = "Command " \o Join(Last.args, " ") \o " failed in "
                        \o Last.cwd \o "."
        /\ ~Contains(error, Last.log)

C15_Witness ==
    /\ StepFailed
    /\ Last.kind = "make" /\ Last.pkg = "glibc" /\ Last.rc = 1
    /\ Contains(error, "make -j5 install-headers")

\* The options whose value config.sub does not accept.
BadOptions ==
    {o \in {"build", "host", "target"} : argv[o] # "" /\ ConfigSub(argv[o]).rc # 0}

\* C16: when an option's value cannot be canonicalized the program never gets
\* past the parsing of its arguments: it ends with config.sub's diagnostic, and
\* nothing is fetched, no directory made, no step run or printed.  When all
\* values are accepted, each triple given on the command line is, from the
\* end of the parsing on, config.sub's output for it.
C16_CanonicalFirst ==
    /\ BadOptions # {} =>
            /\ pc \in {"parse", "failed"}
            /\ ~fetched
            /\ dirs = {} /\ makefiles = {} /\ logs = <<>> /\ stubs = <<>>
            /\ executed = <<>> /\ printed = <<>>
            /\ pc = "failed" =>
                    \E o \in BadOptions : error = ConfigSub(argv[o]).out
    /\ (BadOptions = {} /\ pc # "parse") =>
            /\ argv.build # "" => build = ConfigSub(argv.build).out
            /\ argv.host # "" => host = ConfigSub(argv.host).out
            /\ argv.target # "" => target = ConfigSub(argv.target).out

C16_Witness ==
    /\ pc = "failed"
    /\ argv.host = "aarch64-linux-gnu" /\ argv.target = "bogus"
    /\ error = "Invalid configuration bogus"
    /\ ~fetched /\ dirs = {}

\* The install steps of the full recipe that come before the configure of a
\* package and stage.
InstallsBefore(pkg, stage) ==
    CASE pkg = "binutils" -> {}
      [] pkg = "gcc" /\ stage = "" -> {<<"binutils", "", "install">>}
      [] pkg = "glibc" ->
            {<<"binutils", "", "install">>, <<"gcc", "", "install-gcc">>,
             <<"linux", "", "headers_install">>}
      [] OTHER ->
            {<<"binutils", "", "install">>, <<"gcc", "", "install-gcc">>,
             <<"linux", "", "headers_install">>, <<"glibc", "", "install-headers">>,
             <<"gcc", "", "install-target-libgcc">>, <<"glibc", "", "install">>}

\* C17: in a live run, first or resumed, a configure of a relation HOST or
\* TARGET is started only when every install step before it in the recipe has,
\* earlier in this run and for this relation, exited with zero.
C17_ConfigureAfterInstalls ==
    ~dry_run =>
        \A i \in 1 .. Len(to_build) :
            to_build[i] # "CANADIAN" =>
                LET ev == PassEvents(to_build[i])
                IN  \A k \in 1 .. Len(ev) :
                        IsConfigure(ev[k]) =>
                            \A n \in InstallsBefore(ev[k].pkg, ev[k].stage) :
                                \E j \in 1 .. k - 1 :
                                    /\ ev[j].kind = "make"
                                    /\ StepName(ev[j]) = n
                                    /\ ev[j].rc = 0

C17_Witness ==
    /\ ~dry_run /\ run = 2 /\ prev.failed
    /\ PkgWork("binutils", "", target) \in prev.makefiles
    /\ \E k \in 1 .. Len(executed) :
            /\ IsConfigure(executed[k])
            /\ executed[k].pkg = "gcc" /\ executed[k].stage = "2"
            /\ executed[k].system = "TARGET"
    /\ \A k \in 1 .. Len(executed) :
            IsConfigure(executed[k]) => executed[k].pkg # "binutils"

\* A live run started again after a run that failed.
Resumed == run > 1 /\ prev.failed /\ ~dry_run

\* The working directories in which this run has started a configure.
Configured == {e.cwd : e \in {x \in Range(executed) : IsConfigure(x)}}

\* The steps of relation R gone through to its end.
RecipeOf(R) == IF R = "CANADIAN" THEN CanadianRecipe ELSE FullRecipe

\* Position of relation R in to_build.
Place(R) == CHOOSE i \in 1 .. Len(to_build) : to_build[i] = R

\* C18 as stated, the part on configure: a resumed run gone through to its end
\* has configured exactly the work directories of its recipe that had no
\* Makefile when it started.
C18_ConfiguresWhereNoMakefile ==
    (Resumed /\ pc = "done") =>
        \A c \in RecipeCalls :
            WorkDirOf(c) \in Configured <=> WorkDirOf(c) \notin prev.makefiles

\* C18 amended: a resumed run stops only at a step that fails; gone through to
\* its end, it has started every step of every relation in recipe order, has
\* configured exactly the work directories of binutils, gcc and glibc that had
\* no Makefile when it started, never the one of linux, and its last step is
\* the last step of the last relation.
C18_ResumeCompletes ==
    Resumed =>
        /\ pc = "failed" => (executed # <<>> /\ Last.rc # 0)
        /\ pc = "done" =>
              /\ \A i \in 1 .. Len(to_build) :
                    StepNames(PassEvents(to_build[i])) = RecipeOf(to_build[i])
              /\ \A j, k \in 1 .. Len(executed) :
                    j < k => Place(executed[j].system) <= Place(executed[k].system)
              /\ \A c \in RecipeCalls :
                    WorkDirOf(c) \in Configured <=>
                        (HasConfigure(c.pkg) /\ WorkDirOf(c) \notin prev.makefiles)
              /\ to_build # <<>> =>
                    /\ Last.system = to_build[Len(to_build)]
                    /\ Last.kind = "make" /\ Last.rc = 0
                    /\ StepName(Last)
                          = RecipeOf(Last.system)[Len(RecipeOf(Last.system))]

C18_Witness ==
    /\ Resumed /\ pc = "done"
    /\ Len(to_build) = 3
    /\ PkgWork("glibc", "", target) \in prev.makefiles
    /\ PkgWork("gcc", "2", target) \notin prev.makefiles
    /\ PkgWork("gcc", "2", target) \in Configured
    /\ PkgWork("glibc", "", target) \notin Configured

\* The header prefix of relation R.
HeaderPrefix(R) == IF R = "TARGET" THEN target_dir ELSE host_dir

\* In a live run: the stub header of a relation is there once the workaround has
\* run for it, the workaround comes right after a successful glibc
\* install-headers of the relation, and all-target-libgcc starts after it.
StubsInPlace ==
    ~dry_run =>
        \A k \in 1 .. Len(executed) :
            LET e == executed[k]
            IN  /\ e.kind = "stubs" =>
                      /\ e.system # "CANADIAN"
                      /\ e.cwd = HeaderPrefix(e.system)
                      /\ StubsPath(HeaderPrefix(e.system)) \in DOMAIN stubs
                      /\ k > 1
                      /\ executed[k - 1].system = e.system
                      /\ executed[k - 1].kind = "make"
                      /\ StepName(executed[k - 1]) = <<"glibc", "", "install-headers">>
                      /\ executed[k - 1].rc = 0
                /\ (e.kind = "make" /\ e.args[3] = "all-target-libgcc") =>
                      \E j \in 1 .. k - 1 :
                          executed[j].kind = "stubs" /\ executed[j].system = e.system

\* A step of the workaround in a live run: a file with content is left as it
\* is, and a file that is missing is made, empty; no other file changes.
StubsStep ==
    (Running /\ ~dry_run /\ Call.op = "ensure_stubs" /\ executed' # executed) =>
        LET p == StubsPath(Call.dir)
        IN  IF p \in DOMAIN stubs
            THEN stubs' = stubs
            ELSE /\ DOMAIN stubs' = DOMAIN stubs \cup {p}
                 /\ stubs'[p] = ""
                 /\ \A q \in DOMAIN stubs : stubs'[q] = stubs[q]

\* C19: in a live run the stub header include/gnu/stubs.h under the header
\* prefix of a relation HOST or TARGET exists before all-target-libgcc starts;
\* the workaround runs after glibc install-headers, makes an empty file only
\* when there is none, and leaves the content of a file that exists unchanged.
C19_StubHeader == [](StubsInPlace) /\ [][StubsStep]_vars

C19_Witness ==
    /\ ~dry_run /\ run = 2
    /\ StubsPath(target_dir) \in DOMAIN stubs
    /\ stubs[StubsPath(target_dir)] = "generated"
    /\ \E k \in 1 .. Len(executed) :
            executed[k].kind = "stubs" /\ executed[k].system = "TARGET"
    /\ \E k \in 1 .. Len(executed) :
            /\ executed[k].kind = "make" /\ executed[k].system = "TARGET"
            /\ executed[k].args[3] = "all-target-libgcc"

\* C20: in a live run the log file of the step started last is the log file of
\* no earlier configure or make step of the run; as this holds after every
\* step, no two steps of one run write the same log file.
C20_LogsDistinct ==
    ~dry_run =>
        LET p == Processes
        IN  \A j \in 1 .. Len(p) - 1 : p[j].log # p[Len(p)].log

C20_Witness ==
    /\ ~dry_run /\ pc = "done" /\ run = 1
    /\ Len(to_build) = 3
    /\ Len(Processes) = 35
    /\ Cardinality({e.log : e \in Range(Processes)}) = 35

====
